---- MODULE Spec2Model ----
(***************************************************************************)
(* YouTube audio bot (src/main.py and its near-duplicate src/mai.py):      *)
(* handler routing of main(), the orchestration download_youtube_audio,    *)
(* the blocking adapter download_audio_sync running in the executor, and   *)
(* the failure classification of the except block.                         *)
(*                                                                         *)
(* Strings are sequences of Unicode code points, so that the regular       *)
(* expressions, substring tests, str.lower, str.strip and the slice        *)
(* error_msg[:200] are computed and not assumed.                           *)
(*                                                                         *)
(* Specifications:                                                         *)
(*   Spec        the program as main() builds it: one update at a time     *)
(*   SpecFair    Spec with every handler step eventually taken             *)
(*   SpecResult  the handler from the adapter's result on, for results of  *)
(*               many titles, sizes and durations                          *)
(***************************************************************************)
EXTENDS Integers, Sequences, FiniteSets, TLC

------------------------------------------------------------------------------
(* Configuration, src/main.py:19-20 and src/mai.py:20-21.                   *)
MAX_FILE_SIZE == 50 * 1024 * 1024
MAX_DURATION == 30 * 60

(* error_msg[:200], src/main.py:231.                                        *)
ERROR_EXCERPT == 200

------------------------------------------------------------------------------
(* Bounds of the model.                                                     *)

(* Number of text messages the users send in one behaviour.                 *)
MaxReq == 2
(* Number of directory names tempfile may draw from.                        *)
MaxDir == 2

------------------------------------------------------------------------------
(* String literals of the source, as code points.                           *)

L_http == <<104,116,116,112>>
L_s == <<115>>
L_scheme_sep == <<58,47,47>>
L_www == <<119,119,119,46>>
L_youtube == <<121,111,117,116,117,98,101>>
L_youtu == <<121,111,117,116,117>>
L_nocookie == <<121,111,117,116,117,98,101,45,110,111,99,111,111,107,105,101>>
L_dot == <<46>>
L_com == <<99,111,109>>
L_be == <<98,101>>
L_slash == <<47>>
L_watch == <<119,97,116,99,104,63,118,61>>
L_embed == <<101,109,98,101,100,47>>
L_v == <<118,47>>
L_qv == <<63,118,61>>
(* The characters the class [^&=%\?] excludes.                              *)
ID_EXCLUDED == {38, 61, 37, 63}
(* The pattern of filters.Regex in main(): youtube\.com | youtu\.be         *)
L_route_com == <<121,111,117,116,117,98,101,46,99,111,109>>
L_route_be == <<121,111,117,116,117,46,98,101>>
(* Markers of the except block: "Sign in to confirm", "bot",                *)
(* "Private video", the Russian "too long" phrase of the adapter's own      *)
(* exception, and (mai.py only) "File too large".                           *)
M_sign_in == <<83,105,103,110,32,105,110,32,116,111,32,99,111,110,102,105,114,109>>
M_bot == <<98,111,116>>
M_private == <<80,114,105,118,97,116,101,32,118,105,100,101,111>>
M_too_long == <<1089,1083,1080,1096,1082,1086,1084,32,1076,1083,1080,1085,1085,1086,1077>>
M_file_too_large == <<70,105,108,101,32,116,111,111,32,108,97,114,103,101>>
(* The pieces of the adapter's two exception texts.                         *)
X_too_long_head == <<1042,1080,1076,1077,1086,32,1089,1083,1080,1096,1082,1086,1084,32,1076,1083,1080,1085,1085,1086,1077,32,40>>
X_too_long_mid == <<32,1084,1080,1085,41,46,32,1052,1072,1082,1089,1080,1084,1091,1084,58,32>>
X_too_long_tail == <<32,1084,1080,1085>>
X_not_found == <<1040,1091,1076,1080,1086,32,1092,1072,1081,1083,32,1085,1077,32,1085,1072,1081,1076,1077,1085,32,1087,1086,1089,1083,1077,32,1089,1082,1072,1095,1080,1074,1072,1085,1080,1103>>
ERR_PREFIX == <<69,82,82,79,82,58,32,117,110,97,98,108,101,32,116,111,32,100,111,119,110,108,111,97,100,32,118,105,100,101,111,32,100,97,116,97,58,32>>

------------------------------------------------------------------------------
(* Python string operations.                                                *)

Min(a, b) == IF a <= b THEN a ELSE b

(* sub in text                                                              *)
Contains(text, sub) ==
  \E t \in {text} :
    \E i \in 0..(Len(t) - Len(sub)) : SubSeq(t, i + 1, i + Len(sub)) = sub

(* text.endswith(suffix)                                                    *)
EndsWith(text, suffix) ==
  /\ Len(suffix) <= Len(text)
  /\ SubSeq(text, Len(text) - Len(suffix) + 1, Len(text)) = suffix

(* str.lower on the Latin and Cyrillic letters the texts are made of.       *)
LowerChar(c) ==
  IF (c >= 65 /\ c <= 90) \/ (c >= 1040 /\ c <= 1071) THEN c + 32
  ELSE IF c >= 1024 /\ c <= 1039 THEN c + 80
  ELSE c
Lower(text) == [i \in 1..Len(text) |-> LowerChar(text[i])]

(* The characters str.strip removes.                                        *)
IsSpace(c) ==
  \/ c \in {9, 10, 11, 12, 13, 28, 29, 30, 31, 32, 133, 160, 5760}
  \/ (c >= 8192 /\ c <= 8202)
  \/ c \in {8232, 8233, 8239, 8287, 12288}

(* text.strip()                                                             *)
Strip(text) ==
  LET keep == {i \in 1..Len(text) : ~IsSpace(text[i])}
  IN IF keep = {} THEN <<>>
     ELSE LET lo == CHOOSE i \in keep : \A j \in keep : i <= j
              hi == CHOOSE i \in keep : \A j \in keep : j <= i
          IN SubSeq(text, lo, hi)

(* The whole text, as error_msg without its slice would be.                 *)
Prefix_Whole(text, n) == text

(* text[:n]                                                                 *)
Prefix(text, n) == SubSeq(text, 1, Min(n, Len(text)))

(* str(n) for a natural number n                                            *)
RECURSIVE Dec(_)
Dec(n) == IF n < 10 THEN <<48 + n>> ELSE Dec(n \div 10) \o <<48 + (n % 10)>>

------------------------------------------------------------------------------
(* Regular expressions, matched as re does: a set of offsets reached after  *)
(* each piece of the pattern, starting from the offsets in P.               *)

(* a literal                                                                *)
Lit(s, P, lit) ==
  {p + Len(lit) : p \in {q \in P : /\ q + Len(lit) <= Len(s)
                                    /\ SubSeq(s, q + 1, q + Len(lit)) = lit}}

(* (lit)?                                                                   *)
Opt(s, P, lit) == P \cup Lit(s, P, lit)

(* .+lit : one or more characters other than a line feed, then lit          *)
AnyPlusThen(s, P, lit) ==
  {k + Len(lit) : k \in {j \in 1..Len(s) :
       /\ \E p \in P : p < j /\ \A i \in (p + 1)..j : s[i] # 10
       /\ j + Len(lit) <= Len(s)
       /\ SubSeq(s, j + 1, j + Len(lit)) = lit}}

(* [^&=%\?]{11}                                                             *)
VideoId(s, P) ==
  {p + 11 : p \in {q \in P : /\ q + 11 <= Len(s)
                             /\ \A i \in (q + 1)..(q + 11) : s[i] \notin ID_EXCLUDED}}

(* is_youtube_url: youtube_regex.match(url) is not None                     *)
(* Each set of offsets is bound once it is computed (s is url, P0 the start *)
(* of the text, P1 the offsets after the optional scheme, and so on).       *)
is_youtube_url(url) ==
  \E s \in {url} :
  \E P0 \in {{0}} :
  \E P1 \in {P0 \cup Lit(s, Opt(s, Lit(s, P0, L_http), L_s), L_scheme_sep)} :
  \E P2 \in {Opt(s, P1, L_www)} :
  \E P3 \in {Lit(s, P2, L_youtube) \cup Lit(s, P2, L_youtu) \cup Lit(s, P2, L_nocookie)} :
  \E P4 \in {Lit(s, P3, L_dot)} :
  \E P5 \in {Lit(s, P4, L_com) \cup Lit(s, P4, L_be)} :
  \E P6 \in {Lit(s, P5, L_slash)} :
  \E P7 \in {P6 \cup Lit(s, P6, L_watch) \cup Lit(s, P6, L_embed)
                \cup Lit(s, P6, L_v) \cup AnyPlusThen(s, P6, L_qv)} :
    VideoId(s, P7) # {}

(* filters.Regex(r'(youtube\.com|youtu\.be)'): pattern.search(message.text) *)
RouteRegex(text) == Contains(text, L_route_com) \/ Contains(text, L_route_be)

------------------------------------------------------------------------------
(* The texts the users send.                                                *)

TextOf(id) ==
  CASE id = "t_hello" -> <<104,101,108,108,111,32,119,111,114,108,100>>
     \* 'hello world'
    [] id = "t_watch" -> <<104,116,116,112,115,58,47,47,119,119,119,46,121,111,117,116,117,98,101,46,99,111,109,47,119,97,116,99,104,63,118,61,100,81,119,52,119,57,87,103,88,99,81>>
     \* 'https://www.youtube.com/watch?v=dQw4w9WgXcQ'
    [] id = "t_short_ws" -> <<32,32,121,111,117,116,117,46,98,101,47,100,81,119,52,119,57,87,103,88,99,81,10>>
     \* '  youtu.be/dQw4w9WgXcQ\n'
    [] id = "t_nocookie" -> <<104,116,116,112,115,58,47,47,119,119,119,46,121,111,117,116,117,98,101,45,110,111,99,111,111,107,105,101,46,99,111,109,47,101,109,98,101,100,47,100,81,119,52,119,57,87,103,88,99,81>>
     \* 'https://www.youtube-nocookie.com/embed/dQw4w9WgXcQ'
    [] id = "t_youtube_be" -> <<121,111,117,116,117,98,101,46,98,101,47,100,81,119,52,119,57,87,103,88,99,81>>
     \* 'youtube.be/dQw4w9WgXcQ'
    [] id = "t_lead" -> <<115,101,101,32,104,116,116,112,115,58,47,47,121,111,117,116,117,98,101,46,99,111,109,47,119,97,116,99,104,63,118,61,100,81,119,52,119,57,87,103,88,99,81>>
     \* 'see https://youtube.com/watch?v=dQw4w9WgXcQ'
    [] id = "t_short_id" -> <<104,116,116,112,115,58,47,47,121,111,117,116,117,46,98,101,47,97,98,99>>
     \* 'https://youtu.be/abc'
    [] id = "t_upper" -> <<104,116,116,112,115,58,47,47,89,79,85,84,85,66,69,46,99,111,109,47,119,97,116,99,104,63,118,61,100,81,119,52,119,57,87,103,88,99,81>>
     \* 'https://YOUTUBE.com/watch?v=dQw4w9WgXcQ'
    [] id = "t_generic" -> <<121,111,117,116,117,98,101,46,99,111,109,47,112,108,97,121,108,105,115,116,63,108,105,115,116,61,80,76,49,38,120,63,118,61,100,81,119,52,119,57,87,103,88,99,81>>
     \* 'youtube.com/playlist?list=PL1&x?v=dQw4w9WgXcQ'
    [] id = "t_cmd_foo" -> <<47,102,111,111>>
     \* '/foo'
    [] id = "t_cmd_start" -> <<47,115,116,97,114,116>>
     \* '/start'
    [] id = "t_cmd_help" -> <<47,104,101,108,112>>
     \* '/help'
    [] id = "t_cmd_stats" -> <<47,115,116,97,116,115>>
     \* '/stats'
    [] id = "t_cmd_url" -> <<47,100,108,32,121,111,117,116,117,46,98,101,47,100,81,119,52,119,57,87,103,88,99,81>>
     \* '/dl youtu.be/dQw4w9WgXcQ'

TextIds ==
  {"t_hello", "t_watch", "t_short_ws", "t_nocookie", "t_youtube_be", "t_lead",
   "t_short_id", "t_upper", "t_generic", "t_cmd_foo", "t_cmd_start",
   "t_cmd_help", "t_cmd_stats", "t_cmd_url"}

(* The texts of the exceptions yt_dlp, the chat transport and the operating *)
(* system raise.                                                            *)
ErrTable(id) ==
  CASE id = "e_long_unknown" -> ERR_PREFIX \o [i \in 1..250 |-> 120]
     \* 'ERROR: unable to download video data: ' followed by 250 times 'x'
    [] id = "e_sign_in" -> <<69,82,82,79,82,58,32,91,121,111,117,116,117,98,101,93,32,100,81,119,52,119,57,87,103,88,99,81,58,32,83,105,103,110,32,105,110,32,116,111,32,99,111,110,102,105,114,109,32,121,111,117,114,32,97,103,101>>
     \* 'ERROR: [youtube] dQw4w9WgXcQ: Sign in to confirm your age'
    [] id = "e_bot_private" -> <<80,114,105,118,97,116,101,32,118,105,100,101,111,46,32,83,105,103,110,32,105,110,32,116,111,32,99,111,110,102,105,114,109,32,121,111,117,39,114,101,32,110,111,116,32,97,32,98,111,116>>
     \* "Private video. Sign in to confirm you're not a bot"
    [] id = "e_bot_upper" -> <<72,84,84,80,32,69,114,114,111,114,32,52,50,57,58,32,66,79,84,32,116,114,97,102,102,105,99,32,100,101,116,101,99,116,101,100>>
     \* 'HTTP Error 429: BOT traffic detected'
    [] id = "e_private" -> <<69,82,82,79,82,58,32,91,121,111,117,116,117,98,101,93,32,100,81,119,52,119,57,87,103,88,99,81,58,32,80,114,105,118,97,116,101,32,118,105,100,101,111,46,32,83,105,103,110,32,105,110,32,105,102,32,121,111,117,39,118,101,32,98,101,101,110,32,103,114,97,110,116,101,100,32,97,99,99,101,115,115,32,116,111,32,116,104,105,115,32,118,105,100,101,111>>
     \* "ERROR: [youtube] dQw4w9WgXcQ: Private video. Sign in if you've been granted access to this video"
    [] id = "e_private_long" -> <<80,114,105,118,97,116,101,32,118,105,100,101,111,58,32,1089,1083,1080,1096,1082,1086,1084,32,1076,1083,1080,1085,1085,1086,1077,32,1086,1087,1080,1089,1072,1085,1080,1077>>
     \* 'Private video: ??????? ??????? ????????'
    [] id = "e_long_large" -> <<1089,1083,1080,1096,1082,1086,1084,32,1076,1083,1080,1085,1085,1086,1077,58,32,70,105,108,101,32,116,111,111,32,108,97,114,103,101>>
     \* '??????? ???????: File too large'
    [] id = "e_file_large" -> <<70,105,108,101,32,116,111,111,32,108,97,114,103,101>>
     \* 'File too large'
    [] id = "e_unavailable" -> <<69,82,82,79,82,58,32,91,121,111,117,116,117,98,101,93,32,100,81,119,52,119,57,87,103,88,99,81,58,32,86,105,100,101,111,32,117,110,97,118,97,105,108,97,98,108,101>>
     \* 'ERROR: [youtube] dQw4w9WgXcQ: Video unavailable'
    [] id = "e_empty" -> <<>>
     \* ''
    [] id = "e_tg_timeout" -> <<84,105,109,101,100,32,111,117,116>>
     \* 'Timed out'
    [] id = "e_tg_forbidden" -> <<70,111,114,98,105,100,100,101,110,58,32,98,111,116,32,119,97,115,32,98,108,111,99,107,101,100,32,98,121,32,116,104,101,32,117,115,101,114>>
     \* 'Forbidden: bot was blocked by the user'
    [] id = "e_tg_not_found" -> <<77,101,115,115,97,103,101,32,116,111,32,100,101,108,101,116,101,32,110,111,116,32,102,111,117,110,100>>
     \* 'Message to delete not found'


ErrIds ==
  {"e_long_unknown", "e_sign_in", "e_bot_private", "e_bot_upper", "e_private",
   "e_private_long", "e_long_large", "e_file_large", "e_unavailable",
   "e_empty", "e_tg_timeout", "e_tg_forbidden", "e_tg_not_found"}

(* What ydl.extract_info and ydl.download raise.                            *)
YtErrs ==
  {"e_long_unknown", "e_sign_in", "e_bot_private", "e_bot_upper", "e_private",
   "e_private_long", "e_long_large", "e_file_large", "e_unavailable", "e_empty"}

(* What a call of the chat transport raises.                                *)
ChatErrs == {"e_tg_timeout", "e_tg_forbidden", "e_tg_not_found"}

(* The durations extract_info reports, in seconds.                          *)
Durations == {0, 125, MAX_DURATION, MAX_DURATION + 1, 1900}

(* Names of the files ydl.download leaves in the directory.                 *)
(* info.get('title', 'Unknown'): titles by length, lower-case letters in    *)
(* alphabetical rotation, the two longest with U+1F3B5 as their 80th        *)
(* character; 'Unknown' is the default of a probe without a title.          *)
L_unknown == <<85,110,107,110,111,119,110>>
Letters(n) == [i \in 1..n |-> IF i = 80 /\ n > 80 THEN 127925 ELSE 97 + ((i - 1) % 26)]

TitleOf(id) ==
  CASE id = "tt_unknown" -> L_unknown
    [] id = "tt_empty" -> <<>>
    [] id = "tt_50" -> Letters(50)
    [] id = "tt_51" -> Letters(51)
    [] id = "tt_80" -> Letters(80)
    [] id = "tt_81" -> Letters(81)
    [] id = "tt_85" -> Letters(85)

TitleIds == {"tt_unknown", "tt_empty", "tt_50", "tt_51", "tt_80", "tt_81", "tt_85"}

(* The titles the probe reports in the behaviours of the whole program.     *)
ProbeTitles == {"tt_unknown", "tt_85"}

(* info.get('uploader', 'Unknown')                                          *)
UploaderOf(id) ==
  CASE id = "up_unknown" -> L_unknown

Uploaders == {"up_unknown"}

FileName(id) ==
  CASE id = "f_mp3" -> <<83,111,110,103,46,109,112,51>>
    [] id = "f_m4a" -> <<83,111,110,103,46,109,52,97>>
    [] id = "f_part" -> <<83,111,110,103,46,119,101,98,109,46,112,97,114,116>>
    [] id = "f_jpg" -> <<83,111,110,103,46,106,112,103>>

File(id, size) == [name |-> id, size |-> size]

(* What ydl.download leaves in the directory when it returns.               *)
DownloadOutcomes ==
  { {},
    {File("f_mp3", 40 * 1024 * 1024)},
    {File("f_mp3", MAX_FILE_SIZE)},
    {File("f_mp3", MAX_FILE_SIZE + 1)},
    {File("f_part", 40 * 1024 * 1024)},
    {File("f_jpg", 1024), File("f_mp3", MAX_FILE_SIZE - 1)},
    {File("f_m4a", MAX_FILE_SIZE + 1), File("f_mp3", 40 * 1024 * 1024)} }

------------------------------------------------------------------------------
(* Exceptions. str(e) is computed from the exception: the adapter formats   *)
(* its own texts, the others are the texts of ErrTable.                     *)

Exc(id) == [id |-> id, n |-> 0, path |-> <<0, "none">>]
NoExc == Exc("none")
(* raise Exception(f"... ({duration//60} ...). ...: {MAX_DURATION//60} ...") *)
TooLongExc(duration) == [id |-> "too_long", n |-> duration, path |-> <<0, "none">>]
NotFoundExc == Exc("not_found")

(* FileNotFoundError(2, 'No such file or directory', path) of open() and of *)
(* os.listdir(): str(e) ends with the path in quotes.                       *)
EnoentExc(path) == [id |-> "enoent", n |-> 2, path |-> path]
X_enoent == <<91,69,114,114,110,111,32,50,93,32,78,111,32,115,117,99,104,32,102,105,108,101,32,111,114,32,100,105,114,101,99,116,111,114,121,58,32,39>>
     \* "[Errno 2] No such file or directory: '"

(* The name of a temporary directory: 'tmp' and eight characters that       *)
(* tempfile draws at random from letters, digits and '_', under /tmp. The   *)
(* names of the even directories have 'bot' in them.                        *)
DirPath(d) ==
  <<47,116,109,112,47,116,109,112>>
    \o (IF d % 2 = 1 THEN <<53,114,54,122,50,113>> ELSE <<97,98,111,116,120,49>>)
    \o Dec((d \div 10) % 10) \o Dec(d % 10)

(* os.path.join(temp_dir, file), or temp_dir alone.                         *)
PathText(path) ==
  IF path[2] = "none" THEN DirPath(path[1])
  ELSE DirPath(path[1]) \o <<47>> \o FileName(path[2])

StrOf(e) ==
  CASE e.id = "too_long" ->
         X_too_long_head \o Dec(e.n \div 60) \o X_too_long_mid
           \o Dec(MAX_DURATION \div 60) \o X_too_long_tail
    [] e.id = "not_found" -> X_not_found
    [] e.id = "enoent" -> X_enoent \o PathText(e.path) \o <<39>>
    [] OTHER -> ErrTable(e.id)

------------------------------------------------------------------------------
(* Handler routing of main(): the handlers are tried in the order they were *)
(* added and the first whose filter accepts the message handles it.         *)

C_start == <<115,116,97,114,116>>
C_help == <<104,101,108,112>>
C_stats == <<115,116,97,116,115>>

Variants == {"main.py", "mai.py"}

IsCmdChar(c) ==
  \/ (c >= 97 /\ c <= 122) \/ (c >= 65 /\ c <= 90) \/ (c >= 48 /\ c <= 57)
  \/ c = 95

(* filters.COMMAND: the message starts with a bot command.                  *)
IsCommand(text) == Len(text) >= 2 /\ text[1] = 47 /\ IsCmdChar(text[2])

(* The command of a command message, lower-cased as CommandHandler does.    *)
CommandWord(text) ==
  LET last == CHOOSE k \in 2..Len(text) :
                /\ \A i \in 2..k : IsCmdChar(text[i])
                /\ (k = Len(text) \/ ~IsCmdChar(text[k + 1]))
  IN Lower(SubSeq(text, 2, last))

Route(v, text) ==
  IF IsCommand(text) /\ CommandWord(text) = C_start THEN "start"
  ELSE IF IsCommand(text) /\ CommandWord(text) = C_help THEN "help_command"
  ELSE IF v = "mai.py" /\ IsCommand(text) /\ CommandWord(text) = C_stats
    THEN "stats"
  ELSE IF RouteRegex(text) THEN "download_youtube_audio"
  ELSE IF ~IsCommand(text) THEN "handle_other_messages"
  ELSE "none"

(* Application.builder().token(BOT_TOKEN).build(): concurrent_updates is    *)
(* left at its default, so an update is handled after the handler of the    *)
(* update before it has returned.                                           *)
ConcurrentUpdates == FALSE

------------------------------------------------------------------------------
(* Messages of the bot.                                                     *)

Msg(kind, detail, args) == [kind |-> kind, detail |-> detail, args |-> args]
NoMsg == Msg("none", <<>>, <<>>)

StaticReply(handler) ==
  CASE handler = "start" -> Msg("Welcome", <<>>, <<>>)
    [] handler = "help_command" -> Msg("Help", <<>>, <<>>)
    [] handler = "stats" ->
         Msg("Stats", <<>>, <<MAX_FILE_SIZE \div (1024 * 1024), MAX_DURATION \div 60>>)
    [] handler = "handle_other_messages" -> Msg("OnlyLinks", <<>>, <<>>)

NotALinkMsg == Msg("NotALink", <<>>, <<>>)
CheckingMsg == Msg("Checking", <<>>, <<>>)
DownloadingMsg == Msg("Downloading", <<>>, <<>>)
SendingMsg == Msg("Sending", <<>>, <<>>)

(* The message of the size check after the download: the size and the limit *)
(* in whole megabytes.                                                      *)
TooBigMsg(result) ==
  Msg("SizeExceeded", <<>>,
      <<(result.file_size \div 1024) \div 1024, (MAX_FILE_SIZE \div 1024) \div 1024>>)

(* The if/elif chain of the except block: the category of an error text.    *)
Classify(v, error_msg) ==
  IF Contains(error_msg, M_sign_in) \/ Contains(Lower(error_msg), M_bot)
    THEN "AccessBlocked"
  ELSE IF Contains(error_msg, M_private) THEN "PrivateVideo"
  ELSE IF Contains(error_msg, M_too_long) THEN "DurationExceeded"
  ELSE IF v = "mai.py" /\ Contains(error_msg, M_file_too_large)
    THEN "SizeExceeded"
  ELSE "Unknown"

(* The message the except block renders.                                    *)
FailureMsg(v, error_msg) ==
  LET cat == Classify(v, error_msg)
  IN CASE cat = "DurationExceeded" -> Msg(cat, <<>>, <<MAX_DURATION \div 60>>)
       [] cat = "SizeExceeded" ->
            Msg(cat, <<>>, <<(MAX_FILE_SIZE \div 1024) \div 1024>>)
       [] cat = "Unknown" -> Msg(cat, Prefix(error_msg, ERROR_EXCERPT), <<>>)
       [] OTHER -> Msg(cat, <<>>, <<>>)

FailureKinds ==
  {"AccessBlocked", "PrivateVideo", "DurationExceeded", "SizeExceeded", "Unknown"}

------------------------------------------------------------------------------
(* The checks of the adapter and of the orchestrator.                       *)

(* The duration compared in minutes against the limit in seconds.           *)
DurationTooLong_Minutes(duration) == duration \div 60 > MAX_DURATION

(* if duration > MAX_DURATION                                               *)
DurationTooLong(duration) == duration > MAX_DURATION

(* file.endswith(('.mp3', '.m4a', '.webm', '.wav'))                         *)
AudioExtensions == {<<46,109,112,51>>, <<46,109,52,97>>, <<46,119,101,98,109>>, <<46,119,97,118>>}
(* The test with the extension looked for anywhere in the name, as          *)
(* any(ext in file for ext in ...) would.                                   *)
IsAudioFile_Anywhere(name) == \E ext \in AudioExtensions : Contains(name, ext)

IsAudioFile(name) == \E ext \in AudioExtensions : EndsWith(name, ext)

(* The size check with >= in place of >.                                    *)
SizeViolation_Inclusive(result) == result.file_size >= MAX_FILE_SIZE

(* if result['file_size'] > MAX_FILE_SIZE                                   *)
SizeViolation(result) == result.file_size > MAX_FILE_SIZE

NoResult ==
  [file_path |-> <<0, "none">>, title |-> "none", duration |-> 0,
   uploader |-> "none", file_size |-> 0]

------------------------------------------------------------------------------
(* State.                                                                   *)
(*   variant  the source file that is deployed                              *)
(*   unsent   the text messages the users have still to send                *)
(*   req      one record per update, in order of arrival: the position of   *)
(*            its handler, the handler's locals, the position of the        *)
(*            adapter call in the executor, and what the handler has asked  *)
(*            of the chat transport and of yt_dlp so far                    *)
(*   fs       the temporary directories that exist, each with its files     *)
VARIABLES variant, unsent, req, fs

vars == <<variant, unsent, req, fs>>

Reqs == 1..MaxReq
DirNames == 1..MaxDir

Blank ==
  [pc |-> "idle", handler |-> "none", text |-> "none", temp_dir |-> 0,
   dispatched |-> 0, wpc |-> "none", title |-> "none", duration |-> 0,
   uploader |-> "none", ylog |-> <<>>,
   wexc |-> NoExc, wresult |-> NoResult, result |-> NoResult, tested |-> <<>>,
   error |-> NoExc, calls |-> <<>>, outcome |-> "none"]

Init ==
  /\ variant \in Variants
  /\ unsent = MaxReq
  /\ req = [r \in Reqs |-> Blank]
  /\ fs = << >>

(* url = update.message.text.strip()                                        *)
Url(r) == Strip(TextOf(req[r].text))

Returned(r) == req[r].pc \in {"done", "crashed"}
Running(r) == req[r].pc \notin {"idle", "queued", "gone"}

Call(op, msg, ok) == [op |-> op, msg |-> msg, ok |-> ok]

------------------------------------------------------------------------------
(* tempfile.TemporaryDirectory                                              *)

(* __enter__: a new directory under a name no existing directory has.       *)
TempDirEnter(f, d) == [x \in DOMAIN f \cup {d} |-> IF x = d THEN {} ELSE f[x]]

(* A cleanup that runs only when the block is left without an exception, as *)
(* a removal written at the end of the block would.                         *)
TempDirExit_OnlyOnSuccess(f, d, raised) ==
  IF raised THEN f ELSE [x \in DOMAIN f \ {d} |-> f[x]]

(* __exit__, with or without an exception in flight: the directory and its  *)
(* files are removed.                                                       *)
TempDirExit(f, d, raised) == [x \in DOMAIN f \ {d} |-> f[x]]

(* An exception raised inside the with block: the block is left, the except *)
(* block takes str(e).                                                      *)
RaiseInScope(r, rec, e) ==
  /\ req' = [req EXCEPT ![r] = [rec EXCEPT !.pc = "except", !.error = e]]
  /\ fs' = TempDirExit(fs, rec.temp_dir, TRUE)

------------------------------------------------------------------------------
(* The chat front end.                                                      *)

(* A user sends a text message; it waits in the update queue.               *)
Receive(r) ==
  /\ unsent > 0
  /\ req[r].pc = "idle"
  /\ \A q \in Reqs : q < r => req[q].pc # "idle"
  /\ unsent' = unsent - 1
  /\ req' = [req EXCEPT ![r].pc = "queued"]
  /\ UNCHANGED <<variant, fs>>

(* The application takes the oldest update of the queue and gives it to the *)
(* first handler whose filter accepts it.                                   *)
Dispatch(r) ==
  /\ req[r].pc = "queued"
  /\ \A q \in Reqs : q < r => req[q].pc # "queued"
  /\ ConcurrentUpdates \/ \A q \in Reqs : ~Running(q)
  /\ \E t \in TextIds :
       LET h == Route(variant, TextOf(t))
       IN req' = [req EXCEPT ![r].text = t, ![r].handler = h,
                             ![r].pc = IF h = "none" THEN "done" ELSE "entered",
                             ![r].outcome = IF h = "none" THEN "ignored" ELSE "none"]
  /\ UNCHANGED <<variant, unsent, fs>>

(* start, help_command, stats, handle_other_messages: one reply_text.       *)
StaticHandler(r) ==
  /\ req[r].pc = "entered"
  /\ req[r].handler \in {"start", "help_command", "stats", "handle_other_messages"}
  /\ \/ req' = [req EXCEPT ![r].calls = Append(@, Call("reply_text", StaticReply(req[r].handler), TRUE)),
                           ![r].pc = "done", ![r].outcome = "replied"]
     \/ \E e \in ChatErrs :
          req' = [req EXCEPT ![r].calls = Append(@, Call("reply_text", StaticReply(req[r].handler), FALSE)),
                             ![r].pc = "crashed",
                             ![r].outcome = "crashed"]
  /\ UNCHANGED <<variant, unsent, fs>>

(* The record of a request is discarded once its handler has returned.      *)
Discard(r) ==
  /\ Returned(r)
  /\ req' = [req EXCEPT ![r] = [Blank EXCEPT !.pc = "gone"]]
  /\ UNCHANGED <<variant, unsent, fs>>

------------------------------------------------------------------------------
(* download_youtube_audio, one action per awaited call.                     *)

(* The rejection without its return: the handler goes on to the status      *)
(* message and the with block.                                              *)
RejectLink_NoReturn(r) ==
  /\ req[r].pc = "entered"
  /\ req[r].handler = "download_youtube_audio"
  /\ ~is_youtube_url(Url(r))
  /\ req' = [req EXCEPT ![r].calls = @ \o <<Call("reply_text", NotALinkMsg, TRUE),
                                            Call("reply_text", CheckingMsg, TRUE)>>,
                        ![r].pc = "tempdir"]
  /\ UNCHANGED <<variant, unsent, fs>>

(* if not is_youtube_url(url): reply_text(...); return                      *)
RejectLink(r) ==
  /\ req[r].pc = "entered"
  /\ req[r].handler = "download_youtube_audio"
  /\ ~is_youtube_url(Url(r))
  /\ \/ req' = [req EXCEPT ![r].calls = Append(@, Call("reply_text", NotALinkMsg, TRUE)),
                           ![r].pc = "done", ![r].outcome = "rejected"]
     \/ \E e \in ChatErrs :
          req' = [req EXCEPT ![r].calls = Append(@, Call("reply_text", NotALinkMsg, FALSE)),
                             ![r].pc = "crashed",
                             ![r].outcome = "crashed"]
  /\ UNCHANGED <<variant, unsent, fs>>

(* status_message = await update.message.reply_text(...), before the try.   *)
SendStatus(r) ==
  /\ req[r].pc = "entered"
  /\ req[r].handler = "download_youtube_audio"
  /\ is_youtube_url(Url(r))
  /\ \/ req' = [req EXCEPT ![r].calls = Append(@, Call("reply_text", CheckingMsg, TRUE)),
                           ![r].pc = "tempdir"]
     \/ \E e \in ChatErrs :
          req' = [req EXCEPT ![r].calls = Append(@, Call("reply_text", CheckingMsg, FALSE)),
                             ![r].pc = "crashed",
                             ![r].outcome = "crashed"]
  /\ UNCHANGED <<variant, unsent, fs>>

(* The with block entered with the status edit left out.                    *)
EnterTempDir_NoStatus(r) ==
  /\ req[r].pc = "tempdir"
  /\ \E d \in DirNames \ DOMAIN fs :
       /\ fs' = TempDirEnter(fs, d)
       /\ req' = [req EXCEPT ![r].temp_dir = d, ![r].pc = "run_in_executor"]
  /\ UNCHANGED <<variant, unsent>>

(* with tempfile.TemporaryDirectory() as temp_dir                           *)
EnterTempDir(r) ==
  /\ req[r].pc = "tempdir"
  /\ \E d \in DirNames \ DOMAIN fs :
       /\ fs' = TempDirEnter(fs, d)
       /\ req' = [req EXCEPT ![r].temp_dir = d, ![r].pc = "edit_downloading"]
  /\ UNCHANGED <<variant, unsent>>

(* await status_message.edit_text(<downloading>)                            *)
EditDownloading(r) ==
  /\ req[r].pc = "edit_downloading"
  /\ \/ /\ req' = [req EXCEPT ![r].calls = Append(@, Call("edit_text", DownloadingMsg, TRUE)),
                              ![r].pc = "run_in_executor"]
        /\ fs' = fs
     \/ \E e \in ChatErrs :
          RaiseInScope(r, [req[r] EXCEPT !.calls = Append(@, Call("edit_text", DownloadingMsg, FALSE))],
                       Exc(e))
  /\ UNCHANGED <<variant, unsent>>

(* loop.run_in_executor(None, download_audio_sync, url, temp_dir)           *)
RunInExecutor(r) ==
  /\ req[r].pc = "run_in_executor"
  /\ req' = [req EXCEPT ![r].pc = "await_result", ![r].wpc = "extract_info",
                        ![r].dispatched = @ + 1]
  /\ UNCHANGED <<variant, unsent, fs>>

(* The with block ending with the await, the rest of the handler after it,  *)
(* as the handler would be with the delivery dedented out of the block.     *)
AwaitResult_EndsScope(r) ==
  /\ req[r].pc = "await_result"
  /\ \/ /\ req[r].wpc = "raised"
        /\ RaiseInScope(r, [req[r] EXCEPT !.wpc = "none"], req[r].wexc)
     \/ /\ req[r].wpc = "returned"
        /\ req' = [req EXCEPT ![r].wpc = "none", ![r].result = req[r].wresult,
                              ![r].tested = <<"file_size">>,
                              ![r].pc = IF SizeViolation(req[r].wresult)
                                          THEN "edit_too_big" ELSE "edit_sending"]
        /\ fs' = TempDirExit(fs, req[r].temp_dir, FALSE)
  /\ UNCHANGED <<variant, unsent>>

(* result = await ...: the adapter's exception is raised here, or its       *)
(* result is taken and the size is checked.                                 *)
AwaitResult(r) ==
  /\ req[r].pc = "await_result"
  /\ \/ /\ req[r].wpc = "raised"
        /\ RaiseInScope(r, [req[r] EXCEPT !.wpc = "none"], req[r].wexc)
     \/ /\ req[r].wpc = "returned"
        /\ req' = [req EXCEPT ![r].wpc = "none", ![r].result = req[r].wresult,
                              ![r].tested = <<"file_size">>,
                              ![r].pc = IF SizeViolation(req[r].wresult)
                                          THEN "edit_too_big" ELSE "edit_sending"]
        /\ fs' = fs
  /\ UNCHANGED <<variant, unsent>>

(* await status_message.edit_text(<file too big>); return                   *)
EditTooBig(r) ==
  /\ req[r].pc = "edit_too_big"
  /\ \/ /\ req' = [req EXCEPT ![r].calls = Append(@, Call("edit_text", TooBigMsg(req[r].result), TRUE)),
                              ![r].pc = "done", ![r].outcome = "size_exceeded"]
        /\ fs' = TempDirExit(fs, req[r].temp_dir, FALSE)
     \/ \E e \in ChatErrs :
          RaiseInScope(r, [req[r] EXCEPT !.calls = Append(@, Call("edit_text", TooBigMsg(req[r].result), FALSE))],
                       Exc(e))
  /\ UNCHANGED <<variant, unsent>>

(* await status_message.edit_text(<sending>)                                *)
EditSending(r) ==
  /\ req[r].pc = "edit_sending"
  /\ \/ /\ req' = [req EXCEPT ![r].calls = Append(@, Call("edit_text", SendingMsg, TRUE)),
                              ![r].pc = "reply_document"]
        /\ fs' = fs
     \/ \E e \in ChatErrs :
          RaiseInScope(r, [req[r] EXCEPT !.calls = Append(@, Call("edit_text", SendingMsg, FALSE))],
                       Exc(e))
  /\ UNCHANGED <<variant, unsent>>

FileExists(f, path) ==
  /\ path[1] \in DOMAIN f
  /\ \E x \in f[path[1]] : x.name = path[2]

(* The delivery's texts. L_ellipsis is '...', L_dot_mp3 '.mp3', L_kb ' KB'. *)
L_ellipsis == <<46,46,46>>
L_dot_mp3 == <<46,109,112,51>>
L_kb == <<32,75,66>>
L_colon == <<58>>

(* Format specification 02d without the padding.                            *)
Pad2_Plain(n) == Dec(n)

(* Format specification 02d: decimal, zero-padded to two characters.        *)
Pad2(n) == IF n < 10 THEN <<48>> \o Dec(n) ELSE Dec(n)

(* duration_str = f"{result['duration']//60}:{result['duration']%60:02d}"   *)
duration_str(result) ==
  Dec(result.duration \div 60) \o L_colon \o Pad2(result.duration % 60)

(* size_str = f"{result['file_size']//1024} KB"                             *)
size_str(result) == Dec(result.file_size \div 1024) \o L_kb

(* The title line with the marker added from 80 characters on.              *)
CaptionTitle_From80(title) ==
  Prefix(title, 80) \o (IF Len(title) >= 80 THEN L_ellipsis ELSE <<>>)

(* {result['title'][:80]}{'...' if len(result['title']) > 80 else ''}       *)
CaptionTitle(title) ==
  Prefix(title, 80) \o (IF Len(title) > 80 THEN L_ellipsis ELSE <<>>)

(* The lines of the caption that are filled in from the result.             *)
caption(result) ==
  [title |-> CaptionTitle(TitleOf(result.title)),
   uploader |-> UploaderOf(result.uploader),
   duration |-> duration_str(result),
   size |-> size_str(result)]

(* filename=f"{result['title'][:50]}.mp3"                                   *)
filename(result) == Prefix(TitleOf(result.title), 50) \o L_dot_mp3

DocumentMsg(result) ==
  [kind |-> "Document", detail |-> <<>>, args |-> <<>>,
   filename |-> filename(result), caption |-> caption(result)]

(* with open(result['file_path'], 'rb') as audio_file:                      *)
(*     await update.message.reply_document(...)                             *)
ReplyDocument(r) ==
  /\ req[r].pc = "reply_document"
  /\ IF ~FileExists(fs, req[r].result.file_path)
       THEN RaiseInScope(r, req[r], EnoentExc(req[r].result.file_path))
       ELSE \/ /\ req' = [req EXCEPT ![r].calls = Append(@, Call("reply_document", DocumentMsg(req[r].result), TRUE)),
                                     ![r].pc = "delete_status"]
               /\ fs' = fs
            \/ \E e \in ChatErrs :
                 RaiseInScope(r, [req[r] EXCEPT !.calls = Append(@, Call("reply_document", DocumentMsg(req[r].result), FALSE))],
                              Exc(e))
  /\ UNCHANGED <<variant, unsent>>

(* await status_message.delete(), then the with block ends                  *)
DeleteStatus(r) ==
  /\ req[r].pc = "delete_status"
  /\ \/ /\ req' = [req EXCEPT ![r].calls = Append(@, Call("delete", NoMsg, TRUE)),
                              ![r].pc = "done", ![r].outcome = "delivered"]
        /\ fs' = TempDirExit(fs, req[r].temp_dir, FALSE)
     \/ \E e \in ChatErrs :
          RaiseInScope(r, [req[r] EXCEPT !.calls = Append(@, Call("delete", NoMsg, FALSE))],
                       Exc(e))
  /\ UNCHANGED <<variant, unsent>>

(* An except block that sends the request back to the executor once more.   *)
RenderFailure_Retry(r) ==
  /\ req[r].pc = "except"
  /\ LET m == FailureMsg(variant, StrOf(req[r].error))
     IN req' = [req EXCEPT ![r].calls = Append(@, Call("edit_text", m, TRUE)),
                           ![r].pc = IF req[r].dispatched = 1
                                       THEN "run_in_executor" ELSE "done",
                           ![r].outcome = "failed"]
  /\ UNCHANGED <<variant, unsent, fs>>

(* except Exception as e: error_msg = str(e); one edit_text chosen by the   *)
(* if/elif chain.                                                           *)
RenderFailure(r) ==
  /\ req[r].pc = "except"
  /\ LET m == FailureMsg(variant, StrOf(req[r].error))
     IN \/ req' = [req EXCEPT ![r].calls = Append(@, Call("edit_text", m, TRUE)),
                              ![r].pc = "done", ![r].outcome = "failed"]
        \/ \E e \in ChatErrs :
             req' = [req EXCEPT ![r].calls = Append(@, Call("edit_text", m, FALSE)),
                                ![r].pc = "crashed",
                                ![r].outcome = "crashed"]
  /\ UNCHANGED <<variant, unsent, fs>>

------------------------------------------------------------------------------
(* download_audio_sync, in the executor's thread.                           *)

(* info = ydl.extract_info(url, download=False) and the duration check      *)
YdlExtractInfo(r) ==
  /\ req[r].wpc = "extract_info"
  /\ \/ \E e \in YtErrs :
          req' = [req EXCEPT ![r].ylog = Append(@, "extract_info"),
                             ![r].wpc = "raised", ![r].wexc = Exc(e)]
     \/ \E t \in ProbeTitles, d \in Durations, u \in Uploaders :
          req' = [req EXCEPT ![r].ylog = Append(@, "extract_info"),
                             ![r].title = t,
                             ![r].duration = d,
                             ![r].uploader = u,
                             ![r].wpc = IF DurationTooLong(d) THEN "raised" ELSE "download",
                             ![r].wexc = IF DurationTooLong(d) THEN TooLongExc(d) ELSE NoExc]
  /\ UNCHANGED <<variant, unsent, fs>>

(* ydl.download([url]): it raises, or leaves files in temp_dir              *)
YdlDownload(r) ==
  /\ req[r].wpc = "download"
  /\ \/ /\ \E e \in YtErrs :
             req' = [req EXCEPT ![r].ylog = Append(@, "download"),
                                ![r].wpc = "raised", ![r].wexc = Exc(e)]
        /\ fs' = fs
     \/ /\ req' = [req EXCEPT ![r].ylog = Append(@, "download"), ![r].wpc = "listdir"]
        /\ \E files \in DownloadOutcomes :
             fs' = [x \in DOMAIN fs \cup {req[r].temp_dir} |->
                      IF x = req[r].temp_dir THEN files ELSE fs[x]]
  /\ UNCHANGED <<variant, unsent>>

(* The scan of os.listdir(temp_dir), whose order is the file system's: the  *)
(* first audio file of the listing is returned with its size.               *)
ScanDir(r) ==
  /\ req[r].wpc = "listdir"
  /\ LET d == req[r].temp_dir
         audio_files == IF d \in DOMAIN fs
                          THEN {x \in fs[d] : IsAudioFile(FileName(x.name))}
                          ELSE {}
     IN IF d \notin DOMAIN fs
          THEN req' = [req EXCEPT ![r].wpc = "raised", ![r].wexc = EnoentExc(<<d, "none">>)]
        ELSE IF audio_files = {}
          THEN req' = [req EXCEPT ![r].wpc = "raised", ![r].wexc = NotFoundExc]
        ELSE \E x \in audio_files :
               req' = [req EXCEPT ![r].wpc = "returned",
                                  ![r].wresult = [file_path |-> <<d, x.name>>,
                                                  title |-> req[r].title,
                                                  duration |-> req[r].duration,
                                                  uploader |-> req[r].uploader,
                                                  file_size |-> x.size]]
  /\ UNCHANGED <<variant, unsent, fs>>

------------------------------------------------------------------------------
Next ==
  \E r \in Reqs :
    \/ Receive(r)
    \/ Dispatch(r)
    \/ StaticHandler(r)
    \/ Discard(r)
    \/ RejectLink(r)
    \/ SendStatus(r)
    \/ EnterTempDir(r)
    \/ EditDownloading(r)
    \/ RunInExecutor(r)
    \/ YdlExtractInfo(r)
    \/ YdlDownload(r)
    \/ ScanDir(r)
    \/ AwaitResult(r)
    \/ EditTooBig(r)
    \/ EditSending(r)
    \/ ReplyDocument(r)
    \/ DeleteStatus(r)
    \/ RenderFailure(r)

Spec == Init /\ [][Next]_vars

------------------------------------------------------------------------------
(* The program with every call returning or raising in the end: the         *)
(* application goes on taking updates from its queue while there are any,   *)
(* and every awaited chat call and every call of yt_dlp in the executor     *)
(* completes, so no step of a handler or of its adapter call stays enabled  *)
(* for ever without being taken.                                            *)
Step(r) ==
  \/ Dispatch(r)
  \/ StaticHandler(r)
  \/ Discard(r)
  \/ RejectLink(r)
  \/ SendStatus(r)
  \/ EnterTempDir(r)
  \/ EditDownloading(r)
  \/ RunInExecutor(r)
  \/ YdlExtractInfo(r)
  \/ YdlDownload(r)
  \/ ScanDir(r)
  \/ AwaitResult(r)
  \/ EditTooBig(r)
  \/ EditSending(r)
  \/ ReplyDocument(r)
  \/ DeleteStatus(r)
  \/ RenderFailure(r)

SpecFair == Init /\ [][Next]_vars /\ \A r \in Reqs : WF_vars(Step(r))

------------------------------------------------------------------------------
(* The handler from the adapter's result on (size check, caption, delivery, *)
(* failure message), for the results the adapter returns: any title, any    *)
(* size, a duration of at most MAX_DURATION. The adapter call of request 1  *)
(* has just returned the result, whose file is in the handler's directory.  *)
ResultDurations == {0, 59, 60, 125, 605, MAX_DURATION - 1, MAX_DURATION}
ResultSizes == {40 * 1024 * 1024, MAX_FILE_SIZE, MAX_FILE_SIZE + 1}

AtResult(t, d, u, s) ==
  [Blank EXCEPT !.pc = "await_result", !.handler = "download_youtube_audio",
                !.text = "t_watch", !.temp_dir = 1, !.dispatched = 1,
                !.wpc = "returned", !.title = t, !.duration = d, !.uploader = u,
                !.ylog = <<"extract_info", "download">>,
                !.wresult = [file_path |-> <<1, "f_mp3">>, title |-> t,
                             duration |-> d, uploader |-> u, file_size |-> s],
                !.calls = <<Call("reply_text", CheckingMsg, TRUE),
                            Call("edit_text", DownloadingMsg, TRUE)>>]

InitResult ==
  /\ variant \in Variants
  /\ unsent = 0
  /\ \E t \in TitleIds, d \in ResultDurations, u \in Uploaders, s \in ResultSizes :
       /\ req = [r \in Reqs |-> IF r = 1 THEN AtResult(t, d, u, s) ELSE Blank]
       /\ fs = [x \in {1} |-> {File("f_mp3", s)}]

NextResult ==
  \E r \in Reqs :
    \/ AwaitResult(r)
    \/ EditTooBig(r)
    \/ EditSending(r)
    \/ ReplyDocument(r)
    \/ DeleteStatus(r)
    \/ RenderFailure(r)

SpecResult == InitResult /\ [][NextResult]_vars

------------------------------------------------------------------------------
(* What a request has asked of the chat transport so far.                   *)

CallsOf(r, op) == {i \in DOMAIN req[r].calls : req[r].calls[i].op = op}
Delivered(r) == \E i \in CallsOf(r, "reply_document") : req[r].calls[i].ok
Acquired(r) == req[r].temp_dir # 0

------------------------------------------------------------------------------
(* C1. A handler that acquired a temporary directory has returned only      *)
(* after the directory, with its files, was removed: after delivery, after  *)
(* the size message, and after an exception of the adapter, of              *)
(* reply_document or of a status edit or delete inside the with block.      *)
C1_TempDirRemoved ==
  \A r \in Reqs :
    (Acquired(r) /\ req[r].pc \in {"except", "done", "crashed"})
      => req[r].temp_dir \notin DOMAIN fs

(* A handler has returned after reply_document raised, and its directory is *)
(* gone.                                                                    *)
C1_Witness ==
  \E r \in Reqs :
    /\ Returned(r) /\ Acquired(r)
    /\ \E i \in CallsOf(r, "reply_document") : ~req[r].calls[i].ok
    /\ req[r].temp_dir \notin DOMAIN fs

(* C2. When the probed duration is greater than MAX_DURATION the adapter    *)
(* raises its duration-exceeded exception and ydl.download is never called  *)
(* for the request; ydl.download is called only after one extract_info      *)
(* whose duration is at most MAX_DURATION.                                  *)
C2_NoDownloadWhenTooLong ==
  \A r \in Reqs :
    /\ req[r].ylog \in {<<>>, <<"extract_info">>, <<"extract_info", "download">>}
    /\ req[r].duration > MAX_DURATION =>
         /\ req[r].ylog = <<"extract_info">>
         /\ req[r].wpc \in {"raised", "none"}
         /\ req[r].wpc = "raised" => req[r].wexc = TooLongExc(req[r].duration)
         /\ req[r].wpc = "none" => req[r].error = TooLongExc(req[r].duration)
         /\ Contains(StrOf(TooLongExc(req[r].duration)), M_too_long)
    /\ (req[r].wpc \in {"download", "listdir", "returned"} \/ Len(req[r].ylog) = 2)
         => req[r].duration <= MAX_DURATION

(* The probe reported 1900 seconds and the adapter has raised.              *)
C2_Witness ==
  \E r \in Reqs :
    /\ req[r].duration = 1900
    /\ req[r].wpc = "raised"
    /\ req[r].ylog = <<"extract_info">>

(* The calls of a request that carry a message of the given kind.           *)
KindIdx(r, kind) == {i \in DOMAIN req[r].calls : req[r].calls[i].msg.kind = kind}

(* The failure messages that were rendered: edits that succeeded.           *)
RenderedFailures(r) ==
  {i \in CallsOf(r, "edit_text") :
     req[r].calls[i].ok /\ req[r].calls[i].msg.kind \in FailureKinds}

LastCall(r) == req[r].calls[Len(req[r].calls)]

(* C3. A request renders at most one failure message, never a failure       *)
(* message after its document was delivered, and a request that ended in    *)
(* its failure path (the except block, or the size message) has rendered    *)
(* exactly one.                                                             *)
C3_OneFailureMessage ==
  \A r \in Reqs :
    /\ Cardinality(RenderedFailures(r)) <= 1
    /\ RenderedFailures(r) # {} => ~Delivered(r)
    /\ req[r].outcome \in {"failed", "size_exceeded"}
         => Cardinality(RenderedFailures(r)) = 1

(* C4. Once the document is delivered, a status_message.delete() that       *)
(* raises does not take the request to the except block: no failure message *)
(* is asked for and the request ends delivered.                             *)
C4_DeleteIsBestEffort ==
  \A r \in Reqs :
    (Delivered(r) /\ \E i \in CallsOf(r, "delete") : ~req[r].calls[i].ok)
      => /\ req[r].pc # "except"
         /\ req[r].outcome \notin {"failed", "crashed"}
         /\ \A k \in FailureKinds : KindIdx(r, k) = {}

(* C5. The size check after the download is strict. A result larger than    *)
(* MAX_FILE_SIZE is never sent as a document: the next call is the edit     *)
(* with the size message (the size and the limit in whole megabytes), and   *)
(* the request ends there when the edit succeeds. A result of MAX_FILE_SIZE *)
(* bytes or fewer gets no size message: the next call is the sending        *)
(* status.                                                                  *)
C5_StrictSizeCheck ==
  \A r \in Reqs :
    req[r].result # NoResult =>
      LET size == req[r].result.file_size
          calls == req[r].calls
          limit_mb == (MAX_FILE_SIZE \div 1024) \div 1024
      IN /\ size > MAX_FILE_SIZE =>
              /\ CallsOf(r, "reply_document") = {}
              /\ req[r].pc \notin {"edit_sending", "reply_document", "delete_status"}
              /\ Len(calls) >= 3 =>
                   /\ calls[3].op = "edit_text"
                   /\ calls[3].msg =
                        Msg("SizeExceeded", <<>>, <<(size \div 1024) \div 1024, limit_mb>>)
              /\ (Len(calls) >= 3 /\ calls[3].ok) =>
                   Len(calls) = 3 /\ req[r].outcome = "size_exceeded"
         /\ size <= MAX_FILE_SIZE =>
              /\ req[r].pc # "edit_too_big"
              /\ req[r].outcome # "size_exceeded"
              /\ Len(calls) >= 3 =>
                   calls[3].op = "edit_text" /\ calls[3].msg = SendingMsg
              /\ \A i \in KindIdx(r, "SizeExceeded") : Len(calls[i].msg.args) # 2

(* A result of exactly MAX_FILE_SIZE bytes was delivered.                   *)
C5_Witness ==
  \E r \in Reqs :
    req[r].result.file_size = MAX_FILE_SIZE /\ Delivered(r)

(* C6. The status updates of a request come in the order checking,          *)
(* downloading, sending, each at most once and each after the one before it *)
(* succeeded; the adapter call is given to the executor only after the      *)
(* downloading status was shown.                                            *)
C6_StatusOrder ==
  \A r \in Reqs :
    LET calls == req[r].calls
        c == KindIdx(r, "Checking")
        d == KindIdx(r, "Downloading")
        s == KindIdx(r, "Sending")
    IN /\ Cardinality(c) <= 1 /\ Cardinality(d) <= 1 /\ Cardinality(s) <= 1
       /\ \A i \in d : \E j \in c : j < i /\ calls[j].ok
       /\ \A i \in s : \E j \in d : j < i /\ calls[j].ok
       /\ (req[r].dispatched >= 1 \/ req[r].wpc # "none" \/ req[r].ylog # <<>>)
            => \E j \in d : calls[j].ok /\ s \cap (1..j) = {}

(* All three status updates of a request have been shown.                   *)
C6_Witness ==
  \E r \in Reqs :
    /\ req[r].dispatched = 1
    /\ \E i \in KindIdx(r, "Sending") : req[r].calls[i].ok

(* What a rejected text gets: one reply, the not-a-link message of the      *)
(* handler that took it, and nothing else.                                  *)
RejectedCleanly(r) ==
  /\ Len(req[r].calls) = 1
  /\ req[r].calls[1].op = "reply_text"
  /\ req[r].calls[1].msg.kind \in {"NotALink", "OnlyLinks"}
  /\ KindIdx(r, "Checking") = {}
  /\ ~Acquired(r)
  /\ req[r].dispatched = 0 /\ req[r].ylog = <<>> /\ req[r].wpc = "none"
  /\ req[r].error = NoExc
  /\ req[r].outcome \in {"rejected", "replied", "crashed"}
  /\ req[r].outcome = "crashed" => ~req[r].calls[1].ok

(* C7, as claimed. Every text the classifier rejects gets exactly one       *)
(* reply, the not-a-link message, with no status message, no temporary      *)
(* directory and no adapter call.                                           *)
C7_RejectedGetsOneReply ==
  \A r \in Reqs :
    (Returned(r) /\ ~is_youtube_url(Url(r))) => RejectedCleanly(r)

(* C7, amended. The same, for a rejected text that is not a bot command.    *)
C7_RejectedTextGetsOneReply ==
  \A r \in Reqs :
    (Returned(r) /\ ~is_youtube_url(Url(r)) /\ ~IsCommand(TextOf(req[r].text)))
      => RejectedCleanly(r)

(* "hello world" was answered by handle_other_messages.                     *)
C7_Witness ==
  \E r \in Reqs :
    /\ Returned(r) /\ req[r].text = "t_hello"
    /\ req[r].calls = <<Call("reply_text", Msg("OnlyLinks", <<>>, <<>>), TRUE)>>

(* The first rule, in the order AccessBlocked, PrivateVideo,                *)
(* DurationExceeded, SizeExceeded, Unknown, whose marker a text contains.   *)
FirstRule(text) ==
  IF Contains(text, M_sign_in) \/ Contains(Lower(text), M_bot) THEN "AccessBlocked"
  ELSE IF Contains(text, M_private) THEN "PrivateVideo"
  ELSE IF Contains(text, M_too_long) THEN "DurationExceeded"
  ELSE IF Contains(text, M_file_too_large) THEN "SizeExceeded"
  ELSE "Unknown"

(* C8. The failure message the except block asks for is the one of the      *)
(* first rule, in the order AccessBlocked, PrivateVideo, DurationExceeded,  *)
(* SizeExceeded, Unknown, whose marker the error text contains.             *)
C8_FirstMatchWins ==
  \A r \in Reqs :
    req[r].outcome = "failed" => LastCall(r).msg.kind = FirstRule(StrOf(req[r].error))

(* C9. An error text with the file-too-large marker and none of the         *)
(* markers before it is rendered as SizeExceeded, in main.py and in mai.py. *)
C9_FileTooLargeIsSizeExceeded ==
  \A r \in Reqs :
    LET text == StrOf(req[r].error)
    IN (/\ req[r].outcome = "failed"
        /\ Contains(text, M_file_too_large)
        /\ ~Contains(text, M_sign_in) /\ ~Contains(Lower(text), M_bot)
        /\ ~Contains(text, M_private) /\ ~Contains(text, M_too_long))
         => LastCall(r).msg.kind = "SizeExceeded"

(* A request is past a failure: in the except block, or returned after it   *)
(* or after the size message.                                               *)
Failing(r) ==
  \/ req[r].pc = "except"
  \/ req[r].outcome \in {"failed", "size_exceeded"}
  \/ (req[r].outcome = "crashed" /\ req[r].error # NoExc)

(* C10. Nothing is retried. A request gives the adapter to the executor at  *)
(* most once, and from a failure on it makes no further call of yt_dlp, no  *)
(* further executor call and no delivery: it renders the failure message,   *)
(* returns and is discarded, and a discarded request never runs again.      *)
C10_NoRetry ==
  [][\A r \in Reqs :
       /\ req'[r].dispatched <= 1
       /\ (Failing(r) /\ req'[r] # req[r]) =>
            /\ req'[r].pc \in {"done", "crashed", "gone"}
            /\ req'[r].dispatched \in {req[r].dispatched, 0}
            /\ req'[r].ylog \in {req[r].ylog, <<>>}
            /\ req'[r].wpc = "none"
            /\ CallsOf(r, "reply_document")' \subseteq CallsOf(r, "reply_document")
       /\ req[r].pc = "gone" => req'[r] = req[r]]_vars

(* A request has failed after one executor call.                            *)
C10_Witness ==
  \E r \in Reqs :
    /\ req[r].outcome = "failed"
    /\ req[r].dispatched = 1
    /\ req[r].ylog = <<"extract_info", "download">>

------------------------------------------------------------------------------
(* The handlers that are inside their with block.                           *)
InScopePcs ==
  {"edit_downloading", "run_in_executor", "await_result", "edit_too_big",
   "edit_sending", "reply_document", "delete_status"}
InScope(rq, r) == rq[r].pc \in InScopePcs

------------------------------------------------------------------------------
(* The adapter call of a handler is running in the executor.                *)
AdapterOutstanding(r) ==
  /\ req[r].pc = "await_result"
  /\ req[r].wpc \in {"extract_info", "download", "listdir"}

(* The oldest update that waits in the queue.                               *)
HeadOfQueue(q) ==
  /\ req[q].pc = "queued"
  /\ \A p \in Reqs : p < q => req[p].pc # "queued"

(* C12. While the adapter call of one handler is outstanding in the         *)
(* executor, the event loop can start the handling of the next update of    *)
(* the queue: giving it to its handler is enabled, so that a second handler *)
(* can reach its own status messages and adapter call before the first      *)
(* adapter call completes.                                                  *)
C12_LoopStartsNextUpdate ==
  \A r, q \in Reqs :
    (AdapterOutstanding(r) /\ HeadOfQueue(q)) => ENABLED Dispatch(q)

------------------------------------------------------------------------------
(* C13. Of everything a handler sends, only the Unknown failure message     *)
(* carries text of the exception, and it carries exactly the first          *)
(* min(200, length) characters of str(e); the AccessBlocked, PrivateVideo,  *)
(* DurationExceeded and SizeExceeded messages are fixed texts with at most  *)
(* the configured limits (and, for the size check, the file's size) filled  *)
(* in, and carry nothing of str(e).                                         *)
C13_RawTextOnlyInUnknown ==
  \A r \in Reqs :
    \A i \in DOMAIN req[r].calls :
      LET msg == req[r].calls[i].msg
          raw == StrOf(req[r].error)
      IN /\ msg.kind # "Unknown" => msg.detail = <<>>
         /\ msg.kind \in {"AccessBlocked", "PrivateVideo"} => msg.args = <<>>
         /\ msg.kind = "DurationExceeded" => msg.args = <<MAX_DURATION \div 60>>
         /\ msg.kind = "SizeExceeded" =>
              \/ msg.args = <<MAX_FILE_SIZE \div (1024 * 1024)>>
              \/ msg.args = <<req[r].result.file_size \div (1024 * 1024),
                              MAX_FILE_SIZE \div (1024 * 1024)>>
         /\ msg.kind = "Unknown" =>
              /\ req[r].error # NoExc
              /\ msg.args = <<>>
              /\ Len(msg.detail) <= ERROR_EXCERPT
              /\ Len(msg.detail) = IF Len(raw) < ERROR_EXCERPT THEN Len(raw) ELSE ERROR_EXCERPT
              /\ \A k \in 1..Len(msg.detail) : msg.detail[k] = raw[k]

(* A handler has rendered the Unknown message for an exception whose text   *)
(* has more than 200 characters: the message carries 200 of them.           *)
C13_Witness ==
  \E r \in Reqs :
    /\ req[r].outcome = "failed"
    /\ Len(StrOf(req[r].error)) > ERROR_EXCERPT
    /\ LastCall(r).msg.kind = "Unknown"
    /\ LastCall(r).ok
    /\ Len(LastCall(r).msg.detail) = ERROR_EXCERPT

------------------------------------------------------------------------------
(* The last characters of a name, from its last dot on.                     *)
Extension(name) ==
  LET dots == {i \in DOMAIN name : name[i] = 46}
  IN IF dots = {} THEN <<>>
     ELSE SubSeq(name, CHOOSE i \in dots : \A j \in dots : j <= i, Len(name))

HasAudioFile(f, d) ==
  d \in DOMAIN f /\ \E x \in f[d] : Extension(FileName(x.name)) \in AudioExtensions

(* C14. A result of download_audio_sync names a file that exists in the     *)
(* temp_dir passed to the call, with the size the result reports, and whose *)
(* extension is .mp3, .m4a, .webm or .wav; and when ydl.download has        *)
(* returned and temp_dir holds no file with such an extension, the call     *)
(* raises the not-found exception and returns no result.                    *)
C14_ResultNamesAudioFile ==
  [][ \A r \in Reqs :
        /\ req'[r].wpc = "returned" =>
             LET res == req'[r].wresult
             IN /\ res.file_path[1] = req'[r].temp_dir
                /\ res.file_path[1] \in DOMAIN fs'
                /\ \E x \in fs'[res.file_path[1]] :
                     x.name = res.file_path[2] /\ x.size = res.file_size
                /\ Extension(FileName(res.file_path[2])) \in AudioExtensions
        /\ (req[r].wpc = "listdir" /\ req'[r].wpc # "listdir") =>
             IF HasAudioFile(fs, req[r].temp_dir)
               THEN req'[r].wpc = "returned"
               ELSE /\ req'[r].wpc = "raised"
                    /\ req'[r].wexc = NotFoundExc
                    /\ req'[r].wresult = NoResult
    ]_vars

(* ydl.download left only Song.webm.part, and the adapter has raised the    *)
(* not-found exception.                                                     *)
C14_Witness ==
  \E r \in Reqs :
    /\ req[r].wpc = "raised"
    /\ req[r].wexc = NotFoundExc
    /\ req[r].ylog = <<"extract_info", "download">>
    /\ req[r].temp_dir \in DOMAIN fs
    /\ \E x \in fs[req[r].temp_dir] : x.name = "f_part"

------------------------------------------------------------------------------
(* C15. Once the adapter has returned, the handler tests the result's       *)
(* duration against MAX_DURATION first and its size against MAX_FILE_SIZE   *)
(* second (the size only when the duration passed); a result whose duration *)
(* is greater than MAX_DURATION, whatever its size, is not handed to        *)
(* reply_document, and the handler that took it returns after a             *)
(* duration-exceeded message.                                               *)
C15_DurationTestedFirst ==
  \A r \in Reqs :
    req[r].result # NoResult =>
      /\ req[r].tested \in {<<"duration">>, <<"duration", "file_size">>}
      /\ req[r].result.duration > MAX_DURATION =>
           /\ CallsOf(r, "reply_document") = {}
           /\ req[r].pc = "done" =>
                \E i \in KindIdx(r, "DurationExceeded") : req[r].calls[i].ok

------------------------------------------------------------------------------
(* The reply_document calls of a request.                                   *)
Documents(r) == {req[r].calls[i].msg : i \in CallsOf(r, "reply_document")}

(* Durations for duration_str, those above MAX_DURATION included.           *)
CaptionDurations == {0, 5, 59, 60, 125, 605, MAX_DURATION, 3599, 3600, 3725, 86399}

(* C16. duration_str is the whole minutes of the duration, a colon, and the *)
(* remaining seconds as two digits, the minutes not wrapped into hours:     *)
(* 3725 gives 62:05, 125 gives 2:05 and 0 gives 0:00; and the duration line *)
(* of every caption sent is duration_str of the result's duration.          *)
C16_DurationLine ==
  /\ \A d \in CaptionDurations :
       LET line == duration_str([duration |-> d])
       IN /\ line = Dec(d \div 60) \o <<58, 48 + ((d % 60) \div 10), 48 + ((d % 60) % 10)>>
          /\ d = 3725 => line = <<54, 50, 58, 48, 53>>
          /\ d = 3600 => line = <<54, 48, 58, 48, 48>>
          /\ d = 125 => line = <<50, 58, 48, 53>>
          /\ d = 59 => line = <<48, 58, 53, 57>>
          /\ d = 0 => line = <<48, 58, 48, 48>>
  /\ \A r \in Reqs :
       \A doc \in Documents(r) :
         LET d == req[r].result.duration
         IN doc.caption.duration
              = Dec(d \div 60) \o <<58, 48 + ((d % 60) \div 10), 48 + ((d % 60) % 10)>>

(* A result of 125 seconds was delivered with 2:05 in its caption.          *)
C16_Witness ==
  \E r \in Reqs :
    /\ Delivered(r)
    /\ req[r].result.duration = 125
    /\ \E doc \in Documents(r) : doc.caption.duration = <<50, 58, 48, 53>>

------------------------------------------------------------------------------
(* C17. The title line of a delivered caption is the title when it has at   *)
(* most 80 characters, and its first 80 characters followed by '...' when   *)
(* it has more; the filename is the first 50 characters of the title (the   *)
(* whole title when shorter) followed by '.mp3'. A title of 85 characters   *)
(* gives 80 characters and the marker, and 50 characters before '.mp3'.     *)
C17_TitleLineAndFilename ==
  \A r \in Reqs :
    \A doc \in Documents(r) :
      LET title == TitleOf(req[r].result.title)
          n == Len(title)
          line == doc.caption.title
          name == doc.filename
      IN /\ n <= 80 => line = title
         /\ n > 80 =>
              /\ Len(line) = 83
              /\ \A k \in 1..80 : line[k] = title[k]
              /\ SubSeq(line, 81, 83) = <<46, 46, 46>>
         /\ Len(name) = (IF n < 50 THEN n ELSE 50) + 4
         /\ \A k \in 1..(Len(name) - 4) : name[k] = title[k]
         /\ SubSeq(name, Len(name) - 3, Len(name)) = <<46, 109, 112, 51>>
         /\ n = 85 => Len(line) = 80 + 3 /\ Len(name) = 50 + 4

(* A result with a title of 85 characters was delivered.                    *)
C17_Witness ==
  \E r \in Reqs :
    /\ Delivered(r)
    /\ Len(TitleOf(req[r].result.title)) = 85
    /\ \E doc \in Documents(r) :
         Len(doc.caption.title) = 83 /\ Len(doc.filename) = 54

------------------------------------------------------------------------------
(* C18. Every text that is_youtube_url accepts (after strip, as the handler *)
(* applies it) is given to download_youtube_audio by the handlers of main,  *)
(* and so is not answered by handle_other_messages: for the hosts           *)
(* youtube.com, youtu.be and youtube-nocookie.com alike.                    *)
C18_AcceptedTextReachesDownload ==
  \A r \in Reqs :
    (req[r].text # "none" /\ is_youtube_url(Url(r)))
      => req[r].handler = "download_youtube_audio"

------------------------------------------------------------------------------
(* C19. From the dispatch of the adapter call until reply_document has      *)
(* returned or raised, the handler's directory exists, and from the         *)
(* adapter's return on so does the result's file: open() finds the file it  *)
(* is given. The directory is removed only in the step that ends the with   *)
(* block after the document was sent and the status deleted, in the step    *)
(* that returns after the size message, or in a step where an exception     *)
(* leaves the block, before any failure message of the except block.        *)
C19_DirectoryKeptWhileInUse ==
  [][ \A r \in Reqs :
        /\ req'[r].pc \in {"await_result", "edit_too_big", "edit_sending", "reply_document"}
             => req'[r].temp_dir \in DOMAIN fs'
        /\ req'[r].pc \in {"edit_too_big", "edit_sending", "reply_document"}
             => FileExists(fs', req'[r].result.file_path)
        /\ (req[r].pc = "reply_document" /\ req'[r] # req[r]) =>
             /\ FileExists(fs, req[r].result.file_path)
             /\ req'[r].error.id # "enoent"
             /\ Len(req'[r].calls) = Len(req[r].calls) + 1
        /\ (InScope(req, r) /\ req[r].temp_dir \notin DOMAIN fs') =>
             \/ /\ req[r].pc = "delete_status" /\ req'[r].pc = "done"
                /\ Delivered(r)
                /\ req'[r].calls[Len(req'[r].calls)] = Call("delete", NoMsg, TRUE)
             \/ /\ req[r].pc = "edit_too_big" /\ req'[r].pc = "done"
                /\ req'[r].calls[Len(req'[r].calls)]
                     = Call("edit_text", TooBigMsg(req[r].result), TRUE)
             \/ /\ req'[r].pc = "except"
                /\ req'[r].error # NoExc
                /\ \A i \in DOMAIN req'[r].calls :
                     req'[r].calls[i].ok => req'[r].calls[i].msg.kind \notin FailureKinds
    ]_vars

(* reply_document is about to open the result's file, which is in the       *)
(* handler's directory beside a file that is not the result.                *)
C19_Witness ==
  \E r \in Reqs :
    /\ req[r].pc = "reply_document"
    /\ FileExists(fs, req[r].result.file_path)
    /\ Cardinality(fs[req[r].temp_dir]) = 2

------------------------------------------------------------------------------
(* The three outcomes of a call of download_youtube_audio.                  *)
Rejected(r) == \E i \in KindIdx(r, "NotALink") : req[r].calls[i].ok
Failed(r) == RenderedFailures(r) # {}
Outcomes(r) ==
  (IF Rejected(r) THEN {"rejected"} ELSE {})
    \cup (IF Delivered(r) THEN {"delivered"} ELSE {})
    \cup (IF Failed(r) THEN {"failed"} ELSE {})

Orchestrating(r) ==
  req[r].handler = "download_youtube_audio" /\ req[r].pc \notin {"done", "crashed"}

(* Every call of download_youtube_audio comes to its end.                   *)
EveryHandlerReturns ==
  \A r \in Reqs : Orchestrating(r) ~> Returned(r)

(* C20. With every adapter call and chat call returning or raising, every   *)
(* call of download_youtube_audio comes to its end, and when it has, the    *)
(* user was given exactly one of: the not-a-link reply, the document, one   *)
(* failure message.                                                         *)
C20_TerminatesWithOneOutcome ==
  /\ \A r \in Reqs : Orchestrating(r) ~> Returned(r)
  /\ [](\A r \in Reqs :
          (Returned(r) /\ req[r].handler = "download_youtube_audio") =>
            /\ Cardinality(Outcomes(r)) = 1
            /\ Cardinality(RenderedFailures(r)) <= 1)

====
